---------------------------- MODULE Spec2Model ----------------------------
(***************************************************************************)
(* Model of the media_enhancements dashboard: the MediaFolder table, the   *)
(* four folder-aware media tables (CustomImage, CustomDocument, Video,     *)
(* Audio), the two framework tables without a folder column (Image,        *)
(* Document), the folder mutation views, the create_default_folders        *)
(* management command and the unified_dashboard query.                     *)
(*                                                                         *)
(* Text (folder names, titles, request parameters) is a sequence of        *)
(* one-character strings, so that slugify, icontains and int() are         *)
(* computed character by character.                                        *)
(***************************************************************************)
EXTENDS Integers, Sequences, FiniteSets, TLC

(***************************************************************************)
(* Text helpers                                                            *)
(***************************************************************************)
UpperChars == <<"A","B","C","D","E","F","G","H","I","J","K","L","M",
                "N","O","P","Q","R","S","T","U","V","W","X","Y","Z">>
LowerChars == <<"a","b","c","d","e","f","g","h","i","j","k","l","m",
                "n","o","p","q","r","s","t","u","v","w","x","y","z">>
DigitChars == <<"0","1","2","3","4","5","6","7","8","9">>

Range(s) == { s[i] : i \in DOMAIN s }

\* the characters of the texts of the model
Chars == Range(UpperChars) \cup Range(LowerChars) \cup Range(DigitChars)
             \cup {" ", "-", "_", "!"}

\* str.lower() on one character
LowerTable ==
    [c \in Chars |->
        IF \E i \in DOMAIN UpperChars : UpperChars[i] = c
        THEN LowerChars[CHOOSE i \in DOMAIN UpperChars : UpperChars[i] = c]
        ELSE c]
LowerChar(c) == LowerTable[c]

\* str.lower()
Lower(s) == [ i \in DOMAIN s |-> LowerChar(s[i]) ]

\* the regex class \w restricted to ASCII
IsWordChar(c) == c \in Range(LowerChars) \cup Range(UpperChars)
                       \cup Range(DigitChars) \cup {"_"}
\* the regex class [-\s]
IsDashOrSpace(c) == c \in {"-", " "}

\* re.sub(r'[^\w\s-]', '', value): drop every other character
RECURSIVE KeepSlugChars(_)
KeepSlugChars(s) ==
    IF s = <<>> THEN <<>>
    ELSE IF IsWordChar(Head(s)) \/ IsDashOrSpace(Head(s))
         THEN <<Head(s)>> \o KeepSlugChars(Tail(s))
         ELSE KeepSlugChars(Tail(s))

\* re.sub(r'[-\s]+', '-', value): each run of dashes and spaces becomes one dash
RECURSIVE CollapseDashes(_)
CollapseDashes(s) ==
    IF s = <<>> THEN <<>>
    ELSE IF IsDashOrSpace(Head(s))
         THEN IF Tail(s) # <<>> /\ IsDashOrSpace(Head(Tail(s)))
              THEN CollapseDashes(Tail(s))
              ELSE <<"-">> \o CollapseDashes(Tail(s))
         ELSE <<Head(s)>> \o CollapseDashes(Tail(s))

\* str.strip('-_')
RECURSIVE StripLeft(_)
StripLeft(s) ==
    IF s # <<>> /\ Head(s) \in {"-", "_"} THEN StripLeft(Tail(s)) ELSE s
RECURSIVE StripRight(_)
StripRight(s) ==
    IF s # <<>> /\ s[Len(s)] \in {"-", "_"}
    THEN StripRight(SubSeq(s, 1, Len(s) - 1)) ELSE s

\* django.utils.text.slugify on ASCII text
slugify(s) == StripRight(StripLeft(CollapseDashes(KeepSlugChars(Lower(s)))))

\* title__icontains=q : case-insensitive substring
icontains(s, q) ==
    \E k \in 0..(Len(s) - Len(q)) :
        \A i \in 1..Len(q) : LowerChar(s[k + i]) = LowerChar(q[i])

\* int(text): IsInt when Python parses the text (digits, with an optional
\* minus sign), ToInt its value
IsDigits(s) == s # <<>> /\ \A i \in DOMAIN s : s[i] \in Range(DigitChars)
IsInt(s) == IsDigits(s) \/ (s # <<>> /\ Head(s) = "-" /\ IsDigits(Tail(s)))
DigitVal(c) == (CHOOSE i \in DOMAIN DigitChars : DigitChars[i] = c) - 1
RECURSIVE DigitsToInt(_)
DigitsToInt(s) ==
    IF s = <<>> THEN 0
    ELSE 10 * DigitsToInt(SubSeq(s, 1, Len(s) - 1)) + DigitVal(s[Len(s)])
ToInt(s) == IF Head(s) = "-" THEN 0 - DigitsToInt(Tail(s)) ELSE DigitsToInt(s)

(***************************************************************************)
(* Request parameters: request.GET.get / request.POST.get give None for a  *)
(* parameter that was not sent and the text otherwise.                     *)
(***************************************************************************)
None == [given |-> FALSE, v |-> <<>>]
P(text) == [given |-> TRUE, v |-> text]
\* Python truthiness of a parameter: neither None nor ''
Truthy(p) == p.given /\ p.v # <<>>

(***************************************************************************)
(* The database                                                            *)
(***************************************************************************)
\* A NULL foreign key (MediaFolder ids are assigned from 1)
NoFolder == 0

\* The tables whose rows have a folder column, by the media_type that names them
FolderSources == {"CustomImage", "CustomDocument", "Video", "Audio"}
\* wagtail's own Image and Document tables: no folder, no categories, no tags
DefaultSources == {"Image", "Document"}

Rec(src, id) == [src |-> src, id |-> id]

\* The rows the upload pipeline has stored (it is outside this code: the rows
\* and their attributes are fixed inputs, only their folder changes here)
FolderRecords == { Rec("CustomImage", 1), Rec("CustomImage", 2),
                   Rec("CustomDocument", 1), Rec("Video", 1), Rec("Audio", 1) }
DefaultRecords == { Rec("Image", 1), Rec("Document", 1) }

Title(r) ==
    CASE r = Rec("CustomImage", 1)    -> <<"B","a","n","n","e","r"," ","A">>
      [] r = Rec("CustomImage", 2)    -> <<"l","o","g","o">>
      [] r = Rec("CustomDocument", 1) -> <<"B","r","i","e","f">>
      [] r = Rec("Video", 1)          -> <<"b","a","n","n","e","r"," ","c","l","i","p">>
      [] r = Rec("Audio", 1)          -> <<"J","i","n","g","l","e">>
      [] r = Rec("Image", 1)          -> <<"O","l","d"," ","B","a","n","n","e","r">>
      [] OTHER                        -> <<"o","l","d"," ","b","r","i","e","f">>

\* tag names (taggit); the framework tables are searched by title only
Tags(r) ==
    CASE r = Rec("CustomImage", 2)    -> {<<"B","A","N","N","E","R">>}
      [] r = Rec("CustomDocument", 1) -> {<<"l","e","g","a","l">>}
      [] OTHER                        -> {}

\* category slugs
Categories(r) ==
    CASE r = Rec("CustomImage", 1) -> {<<"p","r","o","m","o">>}
      [] r = Rec("Video", 1)       -> {<<"p","r","o","m","o">>, <<"a","d","s">>}
      [] r = Rec("Audio", 1)       -> {<<"a","d","s">>}
      [] OTHER                     -> {}

\* A created_at attribute: a datetime (a day number from 1 on; aware when the
\* row was stored with time zone support on, naive otherwise), None for a NULL
\* column, or no attribute at all for a model without the field
Datetime(tzinfo, day) == [kind |-> "datetime", tzinfo |-> tzinfo, day |-> day]
NoneDatetime == [kind |-> "None", tzinfo |-> FALSE, day |-> 0]
NoAttribute == [kind |-> "absent", tzinfo |-> FALSE, day |-> 0]
\* datetime.min: naive, before every stored datetime
datetime_min == Datetime(FALSE, 0)

\* the day a row was stored
CreatedAt(r) ==
    CASE r = Rec("CustomImage", 1)    -> 3
      [] r = Rec("CustomImage", 2)    -> 5
      [] r = Rec("CustomDocument", 1) -> 2
      [] r = Rec("Video", 1)          -> 5
      [] r = Rec("Audio", 1)          -> 1
      [] r = Rec("Image", 1)          -> 6
      [] OTHER                        -> 2

\* create_default_folders: folders_data (description, icon and colour are
\* stored and never read by the code modelled here)
folders_data == <<
    [name |-> <<"B","a","n","n","e","r","s">>, order |-> 1],
    [name |-> <<"P","r","o","d","u","c","t","s">>, order |-> 2],
    [name |-> <<"C","a","m","p","a","i","g","n","s">>, order |-> 3],
    [name |-> <<"S","o","c","i","a","l"," ","M","e","d","i","a">>, order |-> 4],
    [name |-> <<"L","o","g","o","s">>, order |-> 5],
    [name |-> <<"V","i","d","e","o","s">>, order |-> 6],
    [name |-> <<"A","u","d","i","o">>, order |-> 7],
    [name |-> <<"D","o","c","u","m","e","n","t","s">>, order |-> 8]
>>

DefaultNames == { folders_data[i].name : i \in DOMAIN folders_data }

\* MediaFolder field defaults, taken when a create call does not pass the field
DefaultIsSystem == FALSE
DefaultOrder == 0
DefaultSlug == <<>>

VARIABLES
    folders,    \* MediaFolder table: id -> [name, slug, parent, order, is_system]
    next_id,    \* the id the next MediaFolder row gets (AutoField)
    media,      \* the media rows of all six tables
    created_at, \* the created_at attribute of each media row
    folder_of,  \* the folder column of the rows of the four custom tables
    seeded,     \* history: the ids of the rows create_default_folders created
    req,        \* the request (or command) handled last
    resp,       \* its response
    nreq,       \* requests handled so far
    GET,        \* the query string of the dashboard request handled last
    context,    \* the context unified_dashboard rendered for it
    result_list,\* the object_list of a Paginator
    page_param, \* the page asked of it
    page_obj,   \* the Page get_page returned
    source_obj, \* a media object handed to UnifiedMediaItem
    unified_item, \* the media_type and metadata UnifiedMediaItem gave it
    race        \* two requests in flight at once: where each is in its view

vars == <<folders, next_id, media, created_at, folder_of, seeded, req, resp, nreq,
          GET, context, result_list, page_param, page_obj,
          source_obj, unified_item, race>>
db == <<folders, next_id, media, created_at, folder_of, seeded>>
\* what the dashboard and the Paginator runs leave behind
views == <<GET, context, result_list, page_param, page_obj,
           source_obj, unified_item, race>>

\* Requests handled in one run of the model
MaxRequests == 3

(***************************************************************************)
(* Requests and responses                                                  *)
(***************************************************************************)
\* (id: the <int:folder_id> of the URL, for the views that take one)
Req(op, method, name, fid, mtype, mid, ajax) ==
    [op |-> op, method |-> method, name |-> name, fid |-> fid,
     mtype |-> mtype, mid |-> mid, ajax |-> ajax, id |-> NoFolder]

\* A response: a redirect to the dashboard (to = the folder in the query string,
\* NoFolder for none) with a flash message of a level, a JSON body, a 404 page,
\* an exception no handler catches, or the command's exit
\* (created_count: what the command reports)
Resp(kind, level, to) ==
    [kind |-> kind, level |-> level, to |-> to, created_count |-> 0]

Handled(r, rsp) ==
    /\ nreq < MaxRequests
    /\ nreq' = nreq + 1
    /\ req' = r
    /\ resp' = rsp
    /\ UNCHANGED views

(***************************************************************************)
(* MediaFolder (models.py)                                                 *)
(***************************************************************************)
FolderIds == DOMAIN folders

NewFolder(name, slug, parent, order) ==
    [name |-> name, slug |-> slug, parent |-> parent, order |-> order,
     is_system |-> DefaultIsSystem]

\* INSERT a MediaFolder row: the table with the row added under the next id
Insert(tbl, id, row) ==
    [f \in DOMAIN tbl \cup {id} |-> IF f = id THEN row ELSE tbl[f]]

\* MediaFolder.get_children(): the rows whose parent is f
get_children(f) == { c \in FolderIds : folders[c].parent = f }

\* MediaFolder.get_breadcrumbs(): the chain of folders from the root down to f
RECURSIVE get_breadcrumbs(_)
get_breadcrumbs(f) ==
    IF folders[f].parent = NoFolder THEN <<f>>
    ELSE get_breadcrumbs(folders[f].parent) \o <<f>>

\* the media rows assigned to f, over the four tables with a folder column
media_in(f) == { r \in DOMAIN folder_of : folder_of[r] = f }

\* a folder an administrator has flagged as a system folder
SystemFolder ==
    [name |-> <<"A","r","c","h","i","v","e">>, slug |-> <<"a","r","c","h","i","v","e">>,
     parent |-> NoFolder, order |-> DefaultOrder, is_system |-> TRUE]

\* MediaFolder.can_delete()
can_delete(f) ==
    /\ get_children(f) = {}
    /\ media_in(f) = {}
    /\ ~folders[f].is_system

(***************************************************************************)
(* create_folder                                                           *)
(***************************************************************************)
\* a create_folder that also makes the new folder the parent of its parent
create_folder_adopts(method, name, parent_id) ==
    LET r == Req("create_folder", method, name, parent_id, None, None, FALSE)
        parent == IF Truthy(parent_id) /\ IsInt(parent_id.v)
                     /\ ToInt(parent_id.v) \in FolderIds
                  THEN ToInt(parent_id.v) ELSE NoFolder
        added == Insert(folders, next_id,
                        NewFolder(name.v, slugify(name.v), parent, DefaultOrder))
    IN
    IF method = "POST" /\ Truthy(name)
    THEN /\ folders' = IF parent = NoFolder THEN added
                       ELSE [added EXCEPT ![parent].parent = next_id]
         /\ next_id' = next_id + 1
         /\ UNCHANGED <<media, created_at, folder_of, seeded>>
         /\ Handled(r, Resp("redirect", "success", parent))
    ELSE /\ Handled(r, Resp("redirect", "error", NoFolder))
         /\ UNCHANGED db

create_folder(method, name, parent_id) ==
    LET r == Req("create_folder", method, name, parent_id, None, None, FALSE) IN
    IF method = "POST"
    THEN IF Truthy(name)
         THEN IF Truthy(parent_id) /\ ~IsInt(parent_id.v)
              THEN \* MediaFolder.objects.get(id='x') raises ValueError
                   /\ Handled(r, Resp("exception", "none", NoFolder))
                   /\ UNCHANGED db
              ELSE LET parent == IF Truthy(parent_id)
                                     /\ ToInt(parent_id.v) \in FolderIds
                                 THEN ToInt(parent_id.v) ELSE NoFolder
                   IN /\ folders' = Insert(folders, next_id,
                              NewFolder(name.v, slugify(name.v), parent,
                                        DefaultOrder))
                      /\ next_id' = next_id + 1
                      /\ UNCHANGED <<media, created_at, folder_of, seeded>>
                      /\ Handled(r, Resp("redirect", "success", parent))
         ELSE /\ Handled(r, Resp("redirect", "error", NoFolder))
              /\ UNCHANGED db
    ELSE /\ Handled(r, Resp("redirect", "none", NoFolder))
         /\ UNCHANGED db

(***************************************************************************)
(* move_media                                                              *)
(***************************************************************************)
\* the table a media_type names
SourceOf(media_type) ==
    CASE media_type = P(<<"i","m","a","g","e">>)                 -> "CustomImage"
      [] media_type = P(<<"d","o","c","u","m","e","n","t">>)     -> "CustomDocument"
      [] media_type = P(<<"v","i","d","e","o">>)                 -> "Video"
      [] media_type = P(<<"a","u","d","i","o">>)                 -> "Audio"
      [] OTHER                                                   -> "none"

\* a move_media that assigns the folder and never saves the row
move_media_no_save(method, media_type, media_id, folder_id, ajax) ==
    LET r == Req("move_media", method, None, folder_id, media_type, media_id, ajax)
        src == SourceOf(media_type)
        found == src # "none" /\ media_id.given /\ IsInt(media_id.v)
                 /\ Rec(src, ToInt(media_id.v)) \in media
    IN /\ UNCHANGED db
       /\ Handled(r, Resp(IF ajax THEN "json" ELSE "redirect",
                          IF method # "POST" THEN "none"
                          ELSE IF found THEN "success" ELSE "error", NoFolder))

move_media(method, media_type, media_id, folder_id, ajax) ==
    LET r == Req("move_media", method, None, folder_id, media_type, media_id, ajax)
        src == SourceOf(media_type)
    IN
    IF method = "POST"
    THEN IF src # "none" /\ media_id.given /\ ~IsInt(media_id.v)
         THEN /\ Handled(r, Resp("exception", "none", NoFolder))
              /\ UNCHANGED db
         ELSE LET found == src # "none" /\ media_id.given
                           /\ Rec(src, ToInt(media_id.v)) \in media
                  media_obj == Rec(src, ToInt(media_id.v))
              IN
              IF found
              THEN IF Truthy(folder_id) /\ folder_id.v # <<"n","u","l","l">>
                      /\ ~IsInt(folder_id.v)
                   THEN /\ Handled(r, Resp("exception", "none", NoFolder))
                        /\ UNCHANGED db
                   ELSE LET folder ==
                                IF Truthy(folder_id)
                                   /\ folder_id.v # <<"n","u","l","l">>
                                   /\ ToInt(folder_id.v) \in FolderIds
                                THEN ToInt(folder_id.v) ELSE NoFolder
                        IN /\ folder_of' = [folder_of EXCEPT ![media_obj] = folder]
                           /\ UNCHANGED <<folders, next_id, media, created_at, seeded>>
                           /\ Handled(r, Resp(IF ajax THEN "json" ELSE "redirect",
                                              "success", NoFolder))
              ELSE /\ Handled(r, Resp(IF ajax THEN "json" ELSE "redirect",
                                      "error", NoFolder))
                   /\ UNCHANGED db
    ELSE /\ Handled(r, Resp("redirect", "none", NoFolder))
         /\ UNCHANGED db

(***************************************************************************)
(* delete_folder                                                           *)
(***************************************************************************)
Remove(tbl, id) == [f \in DOMAIN tbl \ {id} |-> tbl[f]]

\* a delete_folder that skips the guard
delete_folder_unguarded(method, folder_id) ==
    LET r == [Req("delete_folder", method, None, None, None, None, FALSE)
                EXCEPT !.id = folder_id]
    IN
    IF folder_id \notin FolderIds
    THEN /\ Handled(r, Resp("404", "none", NoFolder))
         /\ UNCHANGED db
    ELSE /\ folders' = Remove(folders, folder_id)
         /\ UNCHANGED <<next_id, media, created_at, folder_of, seeded>>
         /\ Handled(r, Resp("redirect", "success", folders[folder_id].parent))

delete_folder(method, folder_id) ==
    LET r == [Req("delete_folder", method, None, None, None, None, FALSE)
                EXCEPT !.id = folder_id]
    IN
    IF folder_id \notin FolderIds
    THEN /\ Handled(r, Resp("404", "none", NoFolder))
         /\ UNCHANGED db
    ELSE IF can_delete(folder_id)
         THEN /\ folders' = Remove(folders, folder_id)
              /\ UNCHANGED <<next_id, media, created_at, folder_of, seeded>>
              /\ Handled(r, Resp("redirect", "success",
                                 folders[folder_id].parent))
         ELSE /\ Handled(r, Resp("redirect", "error", folder_id))
              /\ UNCHANGED db

(***************************************************************************)
(* rename_folder                                                           *)
(***************************************************************************)
\* a rename_folder that assigns and saves the name before it validates it
rename_folder_saves_first(method, folder_id, new_name) ==
    LET r == [Req("rename_folder", method, new_name, None, None, None, FALSE)
                EXCEPT !.id = folder_id]
    IN
    IF folder_id \notin FolderIds
    THEN /\ Handled(r, Resp("404", "none", NoFolder))
         /\ UNCHANGED db
    ELSE IF method = "POST"
         THEN /\ folders' = [folders EXCEPT
                               ![folder_id].name = new_name.v,
                               ![folder_id].slug = slugify(new_name.v)]
              /\ UNCHANGED <<next_id, media, created_at, folder_of, seeded>>
              /\ Handled(r, Resp("redirect",
                                 IF Truthy(new_name) THEN "success" ELSE "error",
                                 folder_id))
         ELSE /\ Handled(r, Resp("redirect", "none", folder_id))
              /\ UNCHANGED db

rename_folder(method, folder_id, new_name) ==
    LET r == [Req("rename_folder", method, new_name, None, None, None, FALSE)
                EXCEPT !.id = folder_id]
    IN
    IF folder_id \notin FolderIds
    THEN /\ Handled(r, Resp("404", "none", NoFolder))
         /\ UNCHANGED db
    ELSE IF method = "POST"
         THEN IF Truthy(new_name)
              THEN /\ folders' = [folders EXCEPT
                                    ![folder_id].name = new_name.v,
                                    ![folder_id].slug = slugify(new_name.v)]
                   /\ UNCHANGED <<next_id, media, created_at, folder_of, seeded>>
                   /\ Handled(r, Resp("redirect", "success", folder_id))
              ELSE /\ Handled(r, Resp("redirect", "error", folder_id))
                   /\ UNCHANGED db
         ELSE /\ Handled(r, Resp("redirect", "none", folder_id))
              /\ UNCHANGED db

(***************************************************************************)
(* create_default_folders: Command.handle                                  *)
(***************************************************************************)
\* MediaFolder.objects.get_or_create(name=..., parent=None, defaults=...) on the
\* table st.folders: the row is fetched when exactly one root folder has the
\* name, created when none has, and get() raises MultipleObjectsReturned when
\* several have, which ends the command
\* a loop body that calls MediaFolder.objects.create(...) without looking first
always_create(st, folder_data) ==
    [st EXCEPT
       !.folders = Insert(st.folders, st.next_id,
                      NewFolder(folder_data.name, DefaultSlug, NoFolder,
                                folder_data.order)),
       !.next_id = st.next_id + 1,
       !.created_count = st.created_count + 1]

get_or_create(st, folder_data) ==
    LET matches == { f \in DOMAIN st.folders :
                        /\ st.folders[f].name = folder_data.name
                        /\ st.folders[f].parent = NoFolder }
    IN
    IF Cardinality(matches) > 1
    THEN [st EXCEPT !.raised = TRUE]
    ELSE IF matches # {}
         THEN st
         ELSE [st EXCEPT
                 !.folders = Insert(st.folders, st.next_id,
                                NewFolder(folder_data.name, DefaultSlug, NoFolder,
                                          folder_data.order)),
                 !.next_id = st.next_id + 1,
                 !.created_count = st.created_count + 1]

\* the for loop over folders_data, from entry i on
RECURSIVE handle_loop(_, _)
handle_loop(i, st) ==
    IF i > Len(folders_data) \/ st.raised THEN st
    ELSE handle_loop(i + 1, get_or_create(st, folders_data[i]))

handle ==
    LET st == handle_loop(1, [folders |-> folders, next_id |-> next_id,
                              created_count |-> 0, raised |-> FALSE])
    IN /\ folders' = st.folders
       /\ next_id' = st.next_id
       /\ seeded' = seeded \cup (DOMAIN st.folders \ DOMAIN folders)
       /\ UNCHANGED <<media, created_at, folder_of>>
       /\ Handled(Req("create_default_folders", "command", None, None, None,
                      None, FALSE),
                  [Resp(IF st.raised THEN "exception" ELSE "command",
                        IF st.raised THEN "none" ELSE "success", NoFolder)
                     EXCEPT !.created_count = st.created_count])

(***************************************************************************)
(* django.core.paginator.Paginator, as unified_dashboard uses it           *)
(***************************************************************************)
\* Paginator(unified_items, 24)
PerPage == 24

Max(a, b) == IF a >= b THEN a ELSE b

\* Paginator.num_pages (orphans = 0, allow_empty_first_page = True)
num_pages(object_list) ==
    LET hits == Max(1, Len(object_list)) IN (hits + PerPage - 1) \div PerPage

\* Paginator.page(number): object_list[bottom:top]
page(object_list, number) ==
    LET bottom == (number - 1) * PerPage
        top == IF bottom + PerPage >= Len(object_list)
               THEN Len(object_list) ELSE bottom + PerPage
    IN [number |-> number, object_list |-> SubSeq(object_list, bottom + 1, top)]

\* a get_page that does not catch EmptyPage: past the end it gives what the
\* slice gives
get_page_no_clamp(object_list, number) ==
    IF number.given /\ ~IsInt(number.v)
    THEN page(object_list, 1)
    ELSE page(object_list, IF number.given THEN Max(1, ToInt(number.v)) ELSE 1)

\* Paginator.get_page(number): validate_number raises PageNotAnInteger for a
\* value int() rejects, which gives page 1, and EmptyPage for a number below 1
\* or above num_pages, which gives the last page
get_page(object_list, number) ==
    IF number.given /\ ~IsInt(number.v)
    THEN page(object_list, 1)
    ELSE LET n == IF number.given THEN ToInt(number.v) ELSE 1 IN
         IF n < 1 \/ n > num_pages(object_list)
         THEN page(object_list, num_pages(object_list))
         ELSE page(object_list, n)

(***************************************************************************)
(* UnifiedMediaItem                                                        *)
(***************************************************************************)
_get_media_type(obj) ==
    CASE obj.src \in {"CustomImage", "Image"}       -> "image"
      [] obj.src \in {"CustomDocument", "Document"} -> "document"
      [] obj.src = "Video"                          -> "video"
      [] obj.src = "Audio"                          -> "audio"
      [] OTHER                                      -> "unknown"

\* getattr(obj, 'folder', None)
_get_folder(obj) == IF obj \in DOMAIN folder_of THEN folder_of[obj] ELSE NoFolder

\* The variant attributes of a media object: each is not an attribute of the
\* object, None, or a text ('' among them; a number is held as its digits)
AttrNames == {"width", "height", "copyright_holder", "document_version",
              "department", "expiry_date", "duration", "resolution",
              "director", "artist", "album", "genre"}
NoAttr == [kind |-> "absent", v |-> <<>>]
NoneValue == [kind |-> "None", v |-> <<>>]
Value(text) == [kind |-> "value", v |-> text]
hasattr(obj, name) == obj[name].kind # "absent"
\* getattr(obj, name, None)
getattr(obj, name) == IF hasattr(obj, name) THEN obj[name] ELSE NoneValue
\* the truth value of an attribute value: None and '' are false
IsTrue(val) == val.kind = "value" /\ val.v # <<>>

\* UnifiedMediaItem._get_metadata: the keys of the media type, each with its
\* value, and then the pairs whose value is true
\* ("x" stands for the multiplication sign of the format string; an object
\* with a width and no height raises AttributeError there)
metadata_keys(media_type) ==
    CASE media_type = "image"    -> {"dimensions", "copyright"}
      [] media_type = "document" -> {"version", "department", "expiry_date"}
      [] media_type = "video"    -> {"duration", "resolution", "director"}
      [] media_type = "audio"    -> {"duration", "artist", "album", "genre"}
      [] OTHER                   -> {}
metadata_value(obj, k) ==
    CASE k = "dimensions" ->
            IF hasattr(obj, "width")
            THEN Value(obj["width"].v \o <<"x">> \o obj["height"].v \o <<"p","x">>)
            ELSE NoneValue
      [] k = "copyright" -> getattr(obj, "copyright_holder")
      [] k = "version"   -> getattr(obj, "document_version")
      [] OTHER           -> getattr(obj, k)
\* a _get_metadata that returns every key of the media type
_get_metadata_unfiltered(media_type, obj) ==
    [k \in metadata_keys(media_type) |-> metadata_value(obj, k)]

_get_metadata(media_type, obj) ==
    [k \in { key \in metadata_keys(media_type) : IsTrue(metadata_value(obj, key)) }
        |-> metadata_value(obj, k)]

\* getattr(obj, 'created_at', None)
_get_created_at(obj) ==
    IF created_at[obj].kind = "absent" THEN NoneDatetime ELSE created_at[obj]

UnifiedMediaItem(obj) ==
    [original_object |-> obj, media_type |-> _get_media_type(obj), id |-> obj.id,
     title |-> Title(obj), created_at |-> _get_created_at(obj),
     folder |-> _get_folder(obj)]

(***************************************************************************)
(* unified_dashboard                                                       *)
(***************************************************************************)
\* Model.objects.all() of one table, as the list its iteration gives (by id)
RECURSIVE ById(_)
ById(S) ==
    IF S = {} THEN <<>>
    ELSE LET r == CHOOSE x \in S : \A y \in S : x.id <= y.id
         IN <<r>> \o ById(S \ {r})

Table(src) == { r \in media : r.src = src }

\* list.sort(key=...): stable; with reverse=True equal keys keep their order
\* too (key: the key of each element of the list)
RECURSIVE InsertSorted(_, _, _, _)
InsertSorted(sorted, x, key, reverse) ==
    IF sorted = <<>> THEN <<x>>
    ELSE LET last == sorted[Len(sorted)]
             stays == IF reverse THEN key[last] >= key[x] ELSE key[last] <= key[x]
         IN IF stays THEN Append(sorted, x)
            ELSE Append(InsertSorted(SubSeq(sorted, 1, Len(sorted) - 1), x,
                                     key, reverse), last)
RECURSIVE SortBy(_, _, _)
SortBy(lst, key, reverse) ==
    IF lst = <<>> THEN <<>>
    ELSE InsertSorted(SortBy(SubSeq(lst, 1, Len(lst) - 1), key, reverse),
                      lst[Len(lst)], key, reverse)

\* key=lambda x: getattr(x, 'created_at', datetime.min)
created_at_key(x) ==
    IF created_at[x].kind = "absent" THEN datetime_min ELSE created_at[x]

\* list.sort raises TypeError when it compares None with anything or a naive
\* datetime with an aware one; a list of two or more items has each item
\* compared, and items of both kinds compared with each other
sort_raises(lst) ==
    /\ Len(lst) >= 2
    /\ \/ \E i \in DOMAIN lst : created_at_key(lst[i]).kind = "None"
       \/ \E i, j \in DOMAIN lst :
             created_at_key(lst[i]).tzinfo # created_at_key(lst[j]).tzinfo

\* ord(c)
CharRankTable ==
    [c \in Chars |->
        CASE c = " " -> 32
          [] c = "!" -> 33
          [] c = "-" -> 45
          [] c = "_" -> 95
          [] c \in Range(DigitChars) ->
                47 + (CHOOSE i \in DOMAIN DigitChars : DigitChars[i] = c)
          [] c \in Range(UpperChars) ->
                64 + (CHOOSE i \in DOMAIN UpperChars : UpperChars[i] = c)
          [] OTHER ->
                96 + (CHOOSE i \in DOMAIN LowerChars : LowerChars[i] = c)]
CharRank(c) == CharRankTable[c]
\* s < t on str
RECURSIVE StrLess(_, _)
StrLess(s, t) ==
    IF s = t \/ t = <<>> THEN FALSE
    ELSE IF s = <<>> THEN TRUE
    ELSE IF CharRank(Head(s)) # CharRank(Head(t))
         THEN CharRank(Head(s)) < CharRank(Head(t))
         ELSE StrLess(Tail(s), Tail(t))
\* x.title.lower() as a sort key: the rank of the lowered title among the
\* lowered titles, in the order of str
TitleKey(x) ==
    Cardinality({ y \in media : StrLess(Lower(Title(y)), Lower(Title(x))) })

Text(str) == P(str)
Param(p, default) == IF p.given THEN p ELSE default

\* the request's query string
Query(type, category, folder, q, sort, pg) ==
    [type |-> type, category |-> category, folder |-> folder, q |-> q,
     sort |-> sort, page |-> pg]

SearchHit(r, q) ==
    icontains(Title(r), q) \/ \E t \in Tags(r) : icontains(t, q)

\* a folder filter that leaves the root unfiltered
folder_filter_root_unfiltered(r, current_folder, folder_id) ==
    IF current_folder # NoFolder THEN folder_of[r] = current_folder ELSE TRUE

\* MediaFolder.objects.filter(parent=None).order_by('order', 'name')
RootFolders == { f \in FolderIds : folders[f].parent = NoFolder }
OrderKey(f) ==
    Cardinality({ g \in RootFolders :
        \/ folders[g].order < folders[f].order
        \/ /\ folders[g].order = folders[f].order
           /\ StrLess(folders[g].name, folders[f].name) })
RECURSIVE ByPk(_)
ByPk(S) ==
    IF S = {} THEN <<>>
    ELSE LET f == CHOOSE x \in S : \A y \in S : x <= y
         IN <<f>> \o ByPk(S \ {f})
root_folders ==
    SortBy(ByPk(RootFolders), [f \in RootFolders |-> OrderKey(f)], FALSE)

\* the folder filter on a row of a table with a folder column:
\* filter(folder=current_folder) in a folder, filter(folder__isnull=True) when
\* no folder parameter was sent, and no filter otherwise
folder_filter(r, current_folder, folder_id) ==
    IF current_folder # NoFolder THEN folder_of[r] = current_folder
    ELSE IF ~folder_id.given THEN folder_of[r] = NoFolder
    ELSE TRUE

\* a stats dictionary counted from the list the type filter has narrowed
get_statistics_narrowed(unified_items, images, documents, videos, audio_files) ==
    LET Count(t) == Cardinality({ i \in DOMAIN unified_items :
                                    unified_items[i].media_type = t })
    IN [total |-> Len(unified_items), images |-> Count("image"),
        documents |-> Count("document"), videos |-> Count("video"),
        audio |-> Count("audio")]

\* the stats dictionary
get_statistics(unified_items, images, documents, videos, audio_files) ==
    [total |-> Len(unified_items),
     images |-> Len(images),
     documents |-> Len(documents),
     videos |-> Cardinality(videos),
     audio |-> Cardinality(audio_files)]

unified_dashboard(query) ==
    LET media_type_filter == Param(query.type, P(<<"a","l","l">>)).v
        category_slug == query.category
        folder_id == query.folder
        search_query == query.q
        sort_by == Param(query.sort, P(<<"-","c","r","e","a","t","e","d","_","a","t">>)).v
        bad_folder_id == Truthy(folder_id) /\ ~IsInt(folder_id.v)
        current_folder ==
            IF Truthy(folder_id) /\ IsInt(folder_id.v)
               /\ ToInt(folder_id.v) \in FolderIds
            THEN ToInt(folder_id.v) ELSE NoFolder
        breadcrumbs ==
            IF current_folder # NoFolder THEN get_breadcrumbs(current_folder)
            ELSE <<>>
        subfolders ==
            IF Truthy(folder_id)
            THEN IF current_folder # NoFolder
                 THEN ByPk(get_children(current_folder)) ELSE <<>>
            ELSE root_folders
        InFolder(r) == folder_filter(r, current_folder, folder_id)
        \* category filter, on the tables it is applied to
        InCategory(r) ==
            Truthy(category_slug) => category_slug.v \in Categories(r)
        \* search filter
        Matches(r) ==
            Truthy(search_query) => SearchHit(r, search_query.v)
        TitleMatches(r) ==
            Truthy(search_query) => icontains(Title(r), search_query.v)
        custom_images == { r \in Table("CustomImage") :
                              InFolder(r) /\ InCategory(r) /\ Matches(r) }
        default_images == { r \in Table("Image") : TitleMatches(r) }
        custom_documents == { r \in Table("CustomDocument") :
                                 InFolder(r) /\ Matches(r) }
        default_documents == { r \in Table("Document") : TitleMatches(r) }
        videos == { r \in Table("Video") :
                       InFolder(r) /\ InCategory(r) /\ Matches(r) }
        audio_files == { r \in Table("Audio") :
                            InFolder(r) /\ InCategory(r) /\ Matches(r) }
        images == ById(custom_images) \o ById(default_images)
        documents == ById(custom_documents) \o ById(default_documents)
        all_media ==
            CASE media_type_filter = <<"i","m","a","g","e">> -> images
              [] media_type_filter = <<"d","o","c","u","m","e","n","t">> -> documents
              [] media_type_filter = <<"v","i","d","e","o">> -> ById(videos)
              [] media_type_filter = <<"a","u","d","i","o">> -> ById(audio_files)
              [] OTHER -> images \o documents \o ById(videos) \o ById(audio_files)
        sorted ==
            CASE sort_by = <<"-","c","r","e","a","t","e","d","_","a","t">> ->
                    SortBy(all_media, [x \in Range(all_media) |-> created_at_key(x).day], TRUE)
              [] sort_by = <<"c","r","e","a","t","e","d","_","a","t">> ->
                    SortBy(all_media, [x \in Range(all_media) |-> created_at_key(x).day], FALSE)
              [] sort_by = <<"t","i","t","l","e">> ->
                    SortBy(all_media, [x \in Range(all_media) |-> TitleKey(x)], FALSE)
              [] sort_by = <<"-","t","i","t","l","e">> ->
                    SortBy(all_media, [x \in Range(all_media) |-> TitleKey(x)], TRUE)
              [] OTHER -> all_media
        by_created_at ==
            sort_by \in { <<"-","c","r","e","a","t","e","d","_","a","t">>,
                          <<"c","r","e","a","t","e","d","_","a","t">> }
        unified_items == [i \in DOMAIN sorted |-> UnifiedMediaItem(sorted[i])]
        media_page == get_page(unified_items, query.page)
    IN
    IF bad_folder_id \/ (by_created_at /\ sort_raises(all_media))
    THEN \* MediaFolder.objects.get(id='x') raises ValueError, or all_media.sort
         \* raises TypeError: no response
         [rendered |-> FALSE, raised |-> TRUE, media_items |-> <<>>,
          unified_items |-> <<>>,
          stats |-> get_statistics(<<>>, <<>>, <<>>, {}, {}),
          current_folder |-> NoFolder, breadcrumbs |-> <<>>,
          subfolders |-> <<>>]
    ELSE [rendered |-> TRUE, raised |-> FALSE,
          media_items |-> media_page.object_list,
          unified_items |-> unified_items,
          stats |-> get_statistics(unified_items, images, documents, videos,
                                   audio_files),
          current_folder |-> current_folder, breadcrumbs |-> breadcrumbs,
          subfolders |-> subfolders]

(***************************************************************************)
(* The state machine                                                       *)
(***************************************************************************)
\* The requests the model sends: every combination of the fields that the POST
\* branch of a view reads, and one GET per view that tests the method.
SocialMedia == <<"S","o","c","i","a","l"," ","M","e","d","i","a">>
Q3Promo == <<"Q","3"," ","-"," ","P","r","o","m","o","!">>
Null == <<"n","u","l","l">>
\* name fields sent by the forms
NameInputs == { P(<<>>), P(SocialMedia), P(Q3Promo) }
\* folder ids sent in URLs
UrlIdInputs == {1, 2, 99}
\* parent_id fields sent by the create form
ParentInputs == { None, P(<<"1">>), P(<<"2">>), P(<<"9","9">>), P(<<"x">>) }
\* folder_id fields sent by the move form
FolderInputs == { None, P(Null), P(<<"1">>), P(<<"2">>), P(<<"9","9">>) }
\* (media_type, media_id) pairs sent by the move form
MediaInputs == { <<P(<<"i","m","a","g","e">>), P(<<"1">>)>>,
                 <<P(<<"i","m","a","g","e">>), P(<<"2">>)>>,
                 <<P(<<"d","o","c","u","m","e","n","t">>), P(<<"1">>)>>,
                 <<P(<<"v","i","d","e","o">>), P(<<"1">>)>>,
                 <<P(<<"a","u","d","i","o">>), P(<<"1">>)>>,
                 <<P(<<"a","u","d","i","o">>), P(<<"7">>)>>,
                 <<P(<<"p","a","g","e">>), P(<<"1">>)>> }

CreateInputs ==
    ({"POST"} \X NameInputs \X ParentInputs)
        \cup { <<"GET", P(Q3Promo), None>> }
MoveInputs ==
    ({"POST"} \X MediaInputs \X { P(Null), P(<<"1">>) } \X {FALSE})
        \cup ({"POST"} \X { <<P(<<"i","m","a","g","e">>), P(<<"1">>)>>,
                            <<P(<<"v","i","d","e","o">>), P(<<"1">>)>> }
                       \X FolderInputs \X {FALSE})
        \cup ({"POST"} \X { <<P(<<"v","i","d","e","o">>), P(<<"1">>)>>,
                            <<P(<<"a","u","d","i","o">>), P(<<"7">>)>>,
                            <<P(<<"v","i","d","e","o">>), P(<<"x">>)>> }
                       \X { P(<<"1">>), P(<<"x">>) } \X {TRUE})
        \cup { <<"GET", <<P(<<"v","i","d","e","o">>), P(<<"1">>)>>, P(<<"1">>), FALSE>> }
DeleteInputs ==
    ({"POST"} \X UrlIdInputs) \cup { <<"GET", 1>> }
RenameInputs ==
    ({"POST"} \X UrlIdInputs \X NameInputs) \cup { <<"GET", 1, P(Q3Promo)>> }

NoRequest ==
    /\ req = Req("none", "none", None, None, None, None, FALSE)
    /\ resp = Resp("none", "none", NoFolder)
    /\ nreq = 0

\* before any dashboard request or Paginator run
NoContext ==
    [rendered |-> FALSE, raised |-> FALSE, media_items |-> <<>>,
     unified_items |-> <<>>,
     stats |-> get_statistics(<<>>, <<>>, <<>>, {}, {}),
     current_folder |-> NoFolder, breadcrumbs |-> <<>>, subfolders |-> <<>>]
NoPage == [number |-> 0, object_list |-> <<>>]
\* before any object was handed to UnifiedMediaItem
NoObject == [n \in AttrNames \cup {"src"} |-> IF n = "src" THEN "none" ELSE NoAttr]
NoItem == [built |-> FALSE, media_type |-> "unknown", metadata |-> <<>>]
\* no requests in flight
RaceProcs == {"a", "b"}
Idle ==
    [op |-> "none", pc |-> "done", id |-> NoFolder, mtype |-> None, mid |-> None,
     fid |-> None, media_obj |-> Rec("none", 0), folder |-> NoFolder,
     held |-> {}, outcome |-> "none"]
NoRace == [on_delete |-> "none", procs |-> [p \in RaceProcs |-> Idle],
           events |-> <<>>]

NoView ==
    /\ GET = Query(None, None, None, None, None, None)
    /\ context = NoContext
    /\ result_list = <<>>
    /\ page_param = None
    /\ page_obj = NoPage
    /\ source_obj = NoObject
    /\ unified_item = NoItem
    /\ race = NoRace

\* every row stored with its created_at, time zone support on or off
StoredAt(tzinfo) ==
    [r \in FolderRecords \cup DefaultRecords |-> Datetime(tzinfo, CreatedAt(r))]

\* the folder table is empty or holds one system folder
Init ==
    /\ \E n \in 0..1 :
          /\ folders = [f \in 1..n |-> SystemFolder]
          /\ next_id = n + 1
    /\ media = FolderRecords \cup DefaultRecords
    /\ created_at = StoredAt(TRUE)
    /\ folder_of = [r \in FolderRecords |-> NoFolder]
    /\ seeded = {}
    /\ NoRequest
    /\ NoView

CreateFolder ==
    \E i \in CreateInputs : create_folder(i[1], i[2], i[3])
MoveMedia ==
    \E i \in MoveInputs : move_media(i[1], i[2][1], i[2][2], i[3], i[4])
DeleteFolder ==
    \E i \in DeleteInputs : delete_folder(i[1], i[2])
RenameFolder ==
    \E i \in RenameInputs : rename_folder(i[1], i[2], i[3])
Bootstrap == handle

Next == CreateFolder \/ MoveMedia \/ DeleteFolder \/ RenameFolder \/ Bootstrap

Spec == Init /\ [][Next]_vars

(***************************************************************************)
(* The dashboard over the database states: SpecDash draws a database and   *)
(* sends dashboard requests to it.                                         *)
(***************************************************************************)
\* Folders in a database SpecDash starts from
MaxDashFolders == 2

\* n root folders made by create_folder
DashFolders(n) ==
    [f \in 1..n |-> NewFolder(Q3Promo, slugify(Q3Promo), NoFolder, DefaultOrder)]

All == <<"a","l","l">>
Image == <<"i","m","a","g","e">>
Document == <<"d","o","c","u","m","e","n","t">>
Video == <<"v","i","d","e","o">>
Audio == <<"a","u","d","i","o">>
TypeInputs == { None, P(Image), P(Document), P(Video), P(Audio) }
FolderQueryInputs == { None, P(<<>>), P(<<"1">>), P(<<"2">>), P(<<"9","9">>),
                       P(<<"x">>) }
CategoryInputs == { None, P(<<"p","r","o","m","o">>) }
SearchInputs == { None, P(<<"B","a","n">>) }
SortInputs == { None, P(<<"c","r","e","a","t","e","d","_","a","t">>),
                P(<<"t","i","t","l","e">>), P(<<"-","t","i","t","l","e">>),
                P(<<"s","i","z","e">>) }
PageInputs == { None, P(<<"1">>), P(<<"2">>), P(<<"3">>), P(<<"4">>),
                P(<<"9","9","9","9">>), P(<<"0">>), P(<<"-","1">>),
                P(<<"a","b","c">>) }

\* every type on every folder scope; every type with every category and search
\* on two folder scopes; the other type values, the sort keys and some pages on
\* two folder scopes
QueryInputs ==
    { Query(t, None, f, None, None, None) :
        t \in TypeInputs, f \in FolderQueryInputs }
    \cup { Query(t, c, f, q, None, None) :
             t \in TypeInputs, f \in { None, P(<<"1">>) },
             c \in CategoryInputs, q \in SearchInputs }
    \cup { Query(t, None, f, None, None, None) :
             t \in { P(All), P(<<"p","a","g","e">>), P(<<>>) },
             f \in { None, P(<<"1">>) } }
    \cup { Query(None, None, f, None, so, pg) :
             f \in { None, P(<<"1">>) }, so \in SortInputs,
             pg \in { None, P(<<"2">>), P(<<"a","b","c">>) } }

InitDash ==
    /\ \E n \in 0..MaxDashFolders :
          /\ folders = DashFolders(n)
          /\ next_id = n + 1
          /\ folder_of \in [FolderRecords -> {NoFolder} \cup 1..n]
    /\ media \in { FolderRecords, FolderRecords \cup DefaultRecords }
    /\ created_at = StoredAt(TRUE)
    /\ seeded = {}
    /\ NoRequest
    /\ NoView

\* one dashboard request per database drawn: the view reads the database and
\* writes nothing, so a second request meets the same database
Dashboard ==
    \E query \in QueryInputs :
        /\ context = NoContext
        /\ GET' = query
        /\ context' = unified_dashboard(query)
        /\ UNCHANGED <<db, req, resp, nreq, result_list, page_param, page_obj,
                       source_obj, unified_item, race>>

NextDash == Dashboard

SpecDash == InitDash /\ [][NextDash]_vars

(***************************************************************************)
(* The sort over the stored timestamps: SpecSort draws the created_at of   *)
(* the rows and sends a dashboard request to the root.                     *)
(***************************************************************************)
\* the created_at columns a database can hold: every datetime aware or every
\* datetime naive (the USE_TZ setting), and for the rows of Video and Audio
\* (models.py) a datetime, NULL or no such field
StampKinds == {"datetime", "None", "absent"}
Stamp(kind, tzinfo, r) ==
    CASE kind = "None" -> NoneDatetime
      [] kind = "absent" -> NoAttribute
      [] OTHER -> Datetime(tzinfo, CreatedAt(r))
StampInputs ==
    { [r \in FolderRecords \cup DefaultRecords |->
          IF r = Rec("Video", 1) THEN Stamp(v, tz, r)
          ELSE IF r = Rec("Audio", 1) THEN Stamp(a, tz, r)
          ELSE Datetime(tz, CreatedAt(r))] :
        tz \in BOOLEAN, v \in StampKinds, a \in StampKinds }

SortQueryInputs ==
    { Query(t, None, None, None, so, None) :
        t \in TypeInputs, so \in SortInputs }

InitSort ==
    /\ folders = <<>>
    /\ next_id = 1
    /\ media \in { FolderRecords, FolderRecords \cup DefaultRecords }
    /\ created_at \in StampInputs
    /\ folder_of = [r \in FolderRecords |-> NoFolder]
    /\ seeded = {}
    /\ NoRequest
    /\ NoView

\* one dashboard request per database drawn
SortedDashboard ==
    \E query \in SortQueryInputs :
        /\ context = NoContext
        /\ GET' = query
        /\ context' = unified_dashboard(query)
        /\ UNCHANGED <<db, req, resp, nreq, result_list, page_param, page_obj,
                       source_obj, unified_item, race>>

NextSort == SortedDashboard

SpecSort == InitSort /\ [][NextSort]_vars

(***************************************************************************)
(* The projection over media objects: SpecMeta draws an object of one of   *)
(* the six models, or of another class, and wraps it in a UnifiedMediaItem.*)
(***************************************************************************)
\* the attributes the objects of a class are drawn with; the others are absent
Own(cls) ==
    CASE cls \in {"CustomImage", "Image"} -> {"width", "copyright_holder"}
      [] cls \in {"CustomDocument", "Document"} ->
            {"document_version", "department", "expiry_date"}
      [] cls = "Video" -> {"duration", "resolution", "director"}
      [] cls = "Audio" -> {"duration", "artist", "album", "genre"}
      [] OTHER -> {"width", "copyright_holder", "duration"}
AttrInputs == { NoAttr, NoneValue, Value(<<>>), Value(<<"x">>) }
\* an object of class cls with the attributes a; width and height are the
\* integer columns of an image: both there with a number, or both absent
Object(cls, a) ==
    [n \in AttrNames \cup {"src"} |->
        CASE n = "src" -> cls
          [] n = "width" /\ n \in DOMAIN a ->
                IF a[n].kind = "absent" THEN NoAttr ELSE Value(<<"8","0","0">>)
          [] n = "height" /\ "width" \in DOMAIN a ->
                IF a["width"].kind = "absent" THEN NoAttr ELSE Value(<<"6","0","0">>)
          [] n \in DOMAIN a -> a[n]
          [] OTHER -> NoAttr]
ObjectInputs ==
    UNION { { Object(cls, a) : a \in [Own(cls) -> AttrInputs] } :
              cls \in FolderSources \cup DefaultSources \cup {"Page"} }

InitMeta ==
    /\ folders = <<>>
    /\ next_id = 1
    /\ media = FolderRecords
    /\ created_at = StoredAt(TRUE)
    /\ folder_of = [r \in FolderRecords |-> NoFolder]
    /\ seeded = {}
    /\ NoRequest
    /\ GET = Query(None, None, None, None, None, None)
    /\ context = NoContext
    /\ result_list = <<>>
    /\ page_param = None
    /\ page_obj = NoPage
    /\ source_obj \in ObjectInputs
    /\ unified_item = NoItem
    /\ race = NoRace

\* UnifiedMediaItem(obj): media_type first, metadata from it
Project ==
    /\ ~unified_item.built
    /\ unified_item' =
          [built |-> TRUE, media_type |-> _get_media_type(source_obj),
           metadata |-> _get_metadata(_get_media_type(source_obj), source_obj)]
    /\ UNCHANGED <<db, req, resp, nreq, GET, context, result_list, page_param,
                   page_obj, source_obj, race>>

NextMeta == Project

SpecMeta == InitMeta /\ [][NextMeta]_vars

(***************************************************************************)
(* Two requests at once: SpecRace runs delete_folder and move_media, or    *)
(* two move_media, as two processes whose database statements interleave.  *)
(* Each step is one statement of the view: a query or a write.             *)
(***************************************************************************)
\* a request in flight, before its first statement
DeleteRequest(folder_id) ==
    [Idle EXCEPT !.op = "delete_folder", !.pc = "start", !.id = folder_id]
MoveRequest(media_type, media_id, folder_id) ==
    [Idle EXCEPT !.op = "move_media", !.pc = "start", !.mtype = media_type,
                 !.mid = media_id, !.fid = folder_id]

\* process p goes on with its locals loc; the statement is logged
Step(p, name, loc) ==
    race' = [race EXCEPT !.procs[p] = loc,
                         !.events = Append(race.events, <<p, name>>)]
Done(loc, outcome) == [loc EXCEPT !.pc = "done", !.outcome = outcome]
RaceFrame ==
    UNCHANGED <<next_id, created_at, seeded, req, resp, nreq, GET, context,
                result_list, page_param, page_obj, source_obj, unified_item>>

\* delete_folder: folder = get_object_or_404(MediaFolder, id=folder_id)
delete_get(p) ==
    LET me == race.procs[p] IN
    /\ me.op = "delete_folder" /\ me.pc = "start"
    /\ Step(p, "get", IF me.id \in FolderIds THEN [me EXCEPT !.pc = "can_delete"]
                      ELSE Done(me, "404"))
    /\ UNCHANGED <<folders, media, folder_of>> /\ RaceFrame

\* a delete_folder that goes on to delete whatever can_delete() says
delete_can_delete_ignored(p) ==
    LET me == race.procs[p] IN
    /\ me.op = "delete_folder" /\ me.pc = "can_delete"
    /\ Step(p, "can_delete", [me EXCEPT !.pc = "delete"])
    /\ UNCHANGED <<folders, media, folder_of>> /\ RaceFrame

\* delete_folder: if folder.can_delete()
delete_can_delete(p) ==
    LET me == race.procs[p] IN
    /\ me.op = "delete_folder" /\ me.pc = "can_delete"
    /\ Step(p, "can_delete", IF can_delete(me.id) THEN [me EXCEPT !.pc = "delete"]
                             ELSE Done(me, "error"))
    /\ UNCHANGED <<folders, media, folder_of>> /\ RaceFrame

\* delete_folder: folder.delete(). Django collects the rows that refer to the
\* folder at that moment and treats them as the on_delete of their folder
\* field says: PROTECT raises ProtectedError, CASCADE deletes them, SET_NULL
\* clears their folder
delete_delete(p) ==
    LET me == race.procs[p]
        held == media_in(me.id)
    IN
    /\ me.op = "delete_folder" /\ me.pc = "delete"
    /\ IF held # {} /\ race.on_delete = "PROTECT"
       THEN /\ Step(p, "delete", Done([me EXCEPT !.held = held], "exception"))
            /\ UNCHANGED <<folders, media, folder_of>>
       ELSE /\ Step(p, "delete", Done([me EXCEPT !.held = held], "success"))
            /\ folders' = Remove(folders, me.id)
            /\ media' = IF race.on_delete = "CASCADE" THEN media \ held ELSE media
            /\ folder_of' = [r \in DOMAIN folder_of |->
                                IF r \in held THEN NoFolder ELSE folder_of[r]]
    /\ RaceFrame

\* move_media: media_obj = <Model>.objects.get(id=media_id)
move_get(p) ==
    LET me == race.procs[p]
        row == Rec(SourceOf(me.mtype), ToInt(me.mid.v))
    IN
    /\ me.op = "move_media" /\ me.pc = "start"
    /\ Step(p, "get", IF row \in media
                      THEN [me EXCEPT !.pc = "get_folder", !.media_obj = row]
                      ELSE Done(me, "error"))
    /\ UNCHANGED <<folders, media, folder_of>> /\ RaceFrame

\* move_media: folder = MediaFolder.objects.get(id=folder_id), or None
move_get_folder(p) ==
    LET me == race.procs[p]
        folder == IF Truthy(me.fid) /\ me.fid.v # <<"n","u","l","l">>
                     /\ ToInt(me.fid.v) \in FolderIds
                  THEN ToInt(me.fid.v) ELSE NoFolder
    IN
    /\ me.op = "move_media" /\ me.pc = "get_folder"
    /\ Step(p, "get_folder", [me EXCEPT !.pc = "save", !.folder = folder])
    /\ UNCHANGED <<folders, media, folder_of>> /\ RaceFrame

\* move_media: media_obj.folder = folder; media_obj.save(). The UPDATE writes
\* the folder the process resolved; a row deleted in between is inserted
\* again, and a folder deleted in between fails the foreign key
move_save(p) ==
    LET me == race.procs[p] IN
    /\ me.op = "move_media" /\ me.pc = "save"
    /\ IF me.folder # NoFolder /\ me.folder \notin FolderIds
       THEN /\ Step(p, "save", Done(me, "exception"))
            /\ UNCHANGED <<folders, media, folder_of>>
       ELSE /\ Step(p, "save", Done(me, "success"))
            /\ folder_of' = [folder_of EXCEPT ![me.media_obj] = me.folder]
            /\ media' = media \cup {me.media_obj}
            /\ UNCHANGED folders
    /\ RaceFrame

\* the pairs of requests sent at once
RaceInputs ==
    { DeleteRequest(1), MoveRequest(P(Video), P(<<"1">>), P(<<"1">>)) }
    \X { MoveRequest(P(Video), P(<<"1">>), f) :
            f \in { P(<<"1">>), P(<<"2">>), P(Null) } }

\* folders 1 and 2 exist and are empty; the on_delete of the folder fields is
\* in models.py and is drawn
InitRace ==
    /\ folders = DashFolders(2)
    /\ next_id = 3
    /\ media = FolderRecords
    /\ created_at = StoredAt(TRUE)
    /\ folder_of = [r \in FolderRecords |-> NoFolder]
    /\ seeded = {}
    /\ NoRequest
    /\ GET = Query(None, None, None, None, None, None)
    /\ context = NoContext
    /\ result_list = <<>>
    /\ page_param = None
    /\ page_obj = NoPage
    /\ source_obj = NoObject
    /\ unified_item = NoItem
    /\ \E od \in {"CASCADE", "SET_NULL", "PROTECT"}, i \in RaceInputs :
          race = [on_delete |-> od, procs |-> [p \in RaceProcs |->
                                                 IF p = "a" THEN i[1] ELSE i[2]],
                  events |-> <<>>]

DeleteGet == \E p \in RaceProcs : delete_get(p)
DeleteCanDelete == \E p \in RaceProcs : delete_can_delete(p)
DeleteDelete == \E p \in RaceProcs : delete_delete(p)
MoveGet == \E p \in RaceProcs : move_get(p)
MoveGetFolder == \E p \in RaceProcs : move_get_folder(p)
MoveSave == \E p \in RaceProcs : move_save(p)

NextRace ==
    DeleteGet \/ DeleteCanDelete \/ DeleteDelete \/ MoveGet \/ MoveGetFolder
        \/ MoveSave

SpecRace == InitRace /\ [][NextRace]_vars

(***************************************************************************)
(* The Paginator over result lists: SpecPage draws a sorted result of n    *)
(* items (item i is the i-th of the sorted result) and asks for a page.    *)
(***************************************************************************)
\* Items in a result list SpecPage starts from
MaxItems == 50

InitPage ==
    /\ folders = <<>>
    /\ next_id = 1
    /\ media = FolderRecords
    /\ created_at = StoredAt(TRUE)
    /\ folder_of = [r \in FolderRecords |-> NoFolder]
    /\ seeded = {}
    /\ NoRequest
    /\ GET = Query(None, None, None, None, None, None)
    /\ context = NoContext
    /\ result_list \in { [i \in 1..n |-> i] : n \in 0..MaxItems }
    /\ page_param = None
    /\ page_obj = NoPage
    /\ source_obj = NoObject
    /\ unified_item = NoItem
    /\ race = NoRace

\* one page request per list drawn
Paginate ==
    \E pg \in PageInputs :
        /\ page_obj = NoPage
        /\ page_param' = pg
        /\ page_obj' = get_page(result_list, pg)
        /\ UNCHANGED <<db, req, resp, nreq, GET, context, result_list,
                       source_obj, unified_item, race>>

NextPage == Paginate

SpecPage == InitPage /\ [][NextPage]_vars

(***************************************************************************)
(* The claims                                                              *)
(***************************************************************************)
\* str(id), as a URL or a form field carries a folder id
RECURSIVE IdText(_)
IdText(n) ==
    IF n < 10 THEN <<DigitChars[n + 1]>>
    ELSE IdText(n \div 10) \o <<DigitChars[(n % 10) + 1]>>

\* the records a rendered page lists
Objects(ctx) == { ctx.media_items[i].original_object : i \in DOMAIN ctx.media_items }

\* the dashboard of folder f and of the root, type=all, no category, no search
FolderView(f) ==
    Objects(unified_dashboard(Query(P(All), None, P(IdText(f)), None, None, None)))
RootView ==
    Objects(unified_dashboard(Query(P(All), None, None, None, None, None)))

\* the record a move request names, when it names one that int() accepts
Named(r) == Rec(SourceOf(r.mtype), ToInt(r.mid.v))
NamesRecord(r) ==
    /\ SourceOf(r.mtype) # "none"
    /\ r.mid.given /\ IsInt(r.mid.v)
    /\ Named(r) \in media

\* C1: a delete_folder request for an existing folder F removes F exactly when,
\* before the request, F has no child folder, no media row of the four tables
\* is assigned to F and F is not a system folder; otherwise F is still there.
C1_DeleteIffDeletable ==
    [][ (req'.op = "delete_folder" /\ req'.id \in DOMAIN folders) =>
          ( req'.id \notin DOMAIN folders'
            <=> /\ \A c \in DOMAIN folders : folders[c].parent # req'.id
                /\ \A r \in DOMAIN folder_of : folder_of[r] # req'.id
                /\ ~folders[req'.id].is_system ) ]_vars

\* a delete was refused for a childless folder that holds a media row
C1_Witness ==
    /\ req.op = "delete_folder" /\ resp.level = "error"
    /\ req.id \in FolderIds
    /\ get_children(req.id) = {}
    /\ media_in(req.id) # {}

\* C2: a folder mutation request that reports a failure leaves the folders
\* (their names, slugs and parents) and every folder assignment as they were;
\* create and rename with an empty name and a move that names no record are
\* such requests, and so is every delete the guard refuses.
EmptyNameCase(r) ==
    /\ r.op \in {"create_folder", "rename_folder"}
    /\ r.method = "POST"
    /\ ~Truthy(r.name)
    /\ r.op = "rename_folder" => r.id \in DOMAIN folders
NoRecordCase(r) ==
    /\ r.op = "move_media" /\ r.method = "POST"
    /\ \/ SourceOf(r.mtype) = "none"
       \/ ~r.mid.given
       \/ IsInt(r.mid.v) /\ Named(r) \notin media
C2_FailureLeavesStateUnchanged ==
    [][ /\ (EmptyNameCase(req') \/ NoRecordCase(req')) => resp'.level = "error"
        /\ resp'.level = "error" => UNCHANGED <<folders, folder_of, media>> ]_vars

\* a rename with an empty name was refused for an existing folder
C2_Witness ==
    /\ req.op = "rename_folder" /\ resp.level = "error"
    /\ req.id \in FolderIds /\ req.name = P(<<>>)
    /\ folders[req.id].name # <<>>

\* C3: after a move of an existing record X to an existing folder F the
\* dashboard of F lists X; after a move of X to 'null' no folder's dashboard
\* lists X and the root dashboard does; a move changes the folder of no other
\* record.
C3_MoveThenQuery ==
    /\ [] ( (req.op = "move_media" /\ req.method = "POST" /\ NamesRecord(req)) =>
              /\ (IsDigits(req.fid.v) /\ ToInt(req.fid.v) \in FolderIds)
                    => Named(req) \in FolderView(ToInt(req.fid.v))
              /\ req.fid = P(Null)
                    => /\ \A g \in FolderIds : Named(req) \notin FolderView(g)
                       /\ Named(req) \in RootView )
    /\ [][ (req'.op = "move_media" /\ NamesRecord(req')) =>
              /\ folders' = folders
              /\ \A y \in DOMAIN folder_of \ {Named(req')} :
                    folder_of'[y] = folder_of[y] ]_vars

\* a record was moved into a folder and the dashboard of the folder lists it
C3_Witness ==
    /\ req.op = "move_media" /\ resp.level = "success"
    /\ NamesRecord(req)
    /\ Truthy(req.fid) /\ IsDigits(req.fid.v)
    /\ ToInt(req.fid.v) \in FolderIds
    /\ folder_of[Named(req)] = ToInt(req.fid.v)
    /\ Named(req) \in FolderView(ToInt(req.fid.v))

\* C4: a move of an existing record X with a folder_id that is not 'null' and
\* names no existing folder leaves the folder of X as it was.
C4_UnknownFolderIsNoOp ==
    [][ ( /\ req'.op = "move_media" /\ req'.method = "POST" /\ NamesRecord(req')
          /\ Truthy(req'.fid) /\ req'.fid.v # Null
          /\ ~(IsInt(req'.fid.v) /\ ToInt(req'.fid.v) \in DOMAIN folders) )
          => folder_of'[Named(req')] = folder_of[Named(req')] ]_vars

\* C5: a run of create_default_folders creates only root folders, none under a
\* name a root folder already has and no two under one name; a run on the empty
\* table leaves 8 root folders, one per default name; and a run right after
\* a run creates none, so after two runs from the empty table 8 root folders
\* remain.
Roots(tbl) == { f \in DOMAIN tbl : tbl[f].parent = NoFolder }
OnePerDefaultName(tbl) ==
    /\ Cardinality(Roots(tbl)) = 8
    /\ \A n \in DefaultNames :
          Cardinality({ f \in Roots(tbl) : tbl[f].name = n }) = 1
C5_BootstrapIdempotent ==
    [][ req'.op = "create_default_folders" =>
          /\ \A f \in DOMAIN folders' \ DOMAIN folders :
                /\ folders'[f].parent = NoFolder
                /\ \A g \in Roots(folders) : folders[g].name # folders'[f].name
                /\ \A g \in DOMAIN folders' \ DOMAIN folders :
                      g # f => folders'[g].name # folders'[f].name
          /\ \A f \in DOMAIN folders : f \in DOMAIN folders' /\ folders'[f] = folders[f]
          /\ folders = <<>> => OnePerDefaultName(folders')
          /\ (nreq = 1 /\ req.op = "create_default_folders")
                => /\ folders' = folders
                   /\ resp'.created_count = 0
                   /\ seeded = DOMAIN folders => OnePerDefaultName(folders') ]_vars

\* the command has run twice from the empty table
C5_Witness ==
    /\ nreq = 2 /\ req.op = "create_default_folders"
    /\ resp.kind = "command" /\ resp.created_count = 0
    /\ seeded = DOMAIN folders /\ Cardinality(DOMAIN folders) = 8

\* C6: a folder created by create_default_folders is never deleted: every
\* delete_folder request for one is refused.
C6_SeededNeverDeleted ==
    [][ (req'.op = "delete_folder" /\ req'.id \in seeded
         /\ req'.id \in DOMAIN folders)
          => /\ req'.id \in DOMAIN folders'
             /\ resp'.level = "error" ]_vars

\* the rows a folder query and the root query are to list
AllTypes(query) ==
    (~query.type.given \/ query.type = P(All))
    /\ ~Truthy(query.category) /\ ~Truthy(query.q)
NamesFolder(query) ==
    Truthy(query.folder) /\ IsDigits(query.folder.v)
    /\ ToInt(query.folder.v) \in FolderIds
DefaultRows == { r \in media : r.src \in DefaultSources }
RowsIn(f) == { r \in media : r.src \in FolderSources /\ folder_of[r] = f }

\* C7 as claimed: with type=all and no category or search, the dashboard of an
\* existing folder F lists exactly the records whose folder is F, and the
\* dashboard without a folder parameter exactly the records whose folder is
\* unset.
C7_FolderFilterExact ==
    (context.rendered /\ AllTypes(GET)) =>
        /\ NamesFolder(GET) =>
              Objects(context) = { r \in media : _get_folder(r) = ToInt(GET.folder.v) }
        /\ ~GET.folder.given =>
              Objects(context) = { r \in media : _get_folder(r) = NoFolder }

\* C7, amended: with type=all and no category or search, the dashboard of an
\* existing folder F lists exactly the rows of the four tables with a folder
\* column whose folder is F and, besides, every row of wagtail's own Image and
\* Document tables; the dashboard without a folder parameter lists exactly the
\* rows whose folder is unset, those of wagtail's tables among them. Each row
\* is listed once and stats.total counts the list.
C7_FolderFilterExactCustom ==
    (context.rendered /\ AllTypes(GET)) =>
        /\ NamesFolder(GET) =>
              Objects(context) = RowsIn(ToInt(GET.folder.v)) \cup DefaultRows
        /\ ~GET.folder.given =>
              Objects(context) = RowsIn(NoFolder) \cup DefaultRows
        /\ (NamesFolder(GET) \/ ~GET.folder.given) =>
              /\ Len(context.unified_items) = Cardinality(Objects(context))
              /\ context.stats.total = Cardinality(Objects(context))

\* the dashboard of folder 1 was rendered over rows in folder 1, in folder 2,
\* unfiled rows and rows of wagtail's tables
C7_Witness ==
    /\ context.rendered /\ GET.type = P(All) /\ GET.folder = P(<<"1">>)
    /\ ~Truthy(GET.category) /\ ~Truthy(GET.q)
    /\ RowsIn(1) # {} /\ RowsIn(2) # {} /\ RowsIn(NoFolder) # {}
    /\ DefaultRows # {}
    /\ RowsIn(1) \subseteq Objects(context)

\* C8: a dashboard request whose folder id is a number that names no folder
\* raises nothing and gives the items and the stats of the request without a
\* folder parameter: only records whose folder is unset.
C8_MissingFolderIsRoot ==
    (GET.folder.given /\ IsInt(GET.folder.v) /\ ToInt(GET.folder.v) \notin FolderIds
     /\ context # NoContext) =>
        LET root == unified_dashboard([GET EXCEPT !.folder = None]) IN
        /\ context.rendered /\ ~context.raised
        /\ context.unified_items = root.unified_items
        /\ context.stats = root.stats
        /\ \A r \in Objects(context) : _get_folder(r) = NoFolder

\* C9: the per-type counts of stats are those of the request with the same
\* folder, category and search and type=all, each the number of items of that
\* type in that request's list; stats.total is the length of the list the
\* request itself returns: the sum of the four counts when the type filter
\* names none of the four types, and the count of T when it names T.
CountOf(items, t) == Cardinality({ i \in DOMAIN items : items[i].media_type = t })
C9_StatsIgnoreType ==
    context.rendered =>
        LET all == unified_dashboard([GET EXCEPT !.type = P(All)])
            st == context.stats
        IN
        /\ st.images = all.stats.images /\ st.documents = all.stats.documents
        /\ st.videos = all.stats.videos /\ st.audio = all.stats.audio
        /\ st.images = CountOf(all.unified_items, "image")
        /\ st.documents = CountOf(all.unified_items, "document")
        /\ st.videos = CountOf(all.unified_items, "video")
        /\ st.audio = CountOf(all.unified_items, "audio")
        /\ st.total = Len(context.unified_items)
        /\ CASE GET.type = P(Image) -> st.total = st.images
             [] GET.type = P(Document) -> st.total = st.documents
             [] GET.type = P(Video) -> st.total = st.videos
             [] GET.type = P(Audio) -> st.total = st.audio
             [] OTHER -> st.total = st.images + st.documents + st.videos + st.audio

\* the video tab of folder 1 was rendered while the folder holds images too
C9_Witness ==
    /\ context.rendered /\ GET.type = P(Video) /\ GET.folder = P(<<"1">>)
    /\ context.stats.videos = 1 /\ context.stats.images >= 2
    /\ context.stats.total = 1

\* C10: with 24 items a page and a sorted result of n items, a request for the
\* positive page p gets items 24(p-1)+1 .. min(24p, n) when p is at most the
\* number of pages and the last page when p is larger; no request raises, a
\* page holds at most 24 items, and the pages in order make up the result.
RECURSIVE PagesUpTo(_)
PagesUpTo(k) ==
    IF k = 0 THEN <<>>
    ELSE PagesUpTo(k - 1) \o get_page(result_list, P(IdText(k))).object_list
C10_PaginationClamps ==
    LET n == Len(result_list)
        pages == IF n = 0 THEN 1 ELSE (n + 23) \div 24
        Items(k) == [i \in 1..((IF 24 * k < n THEN 24 * k ELSE n) - 24 * (k - 1))
                        |-> result_list[24 * (k - 1) + i]]
    IN
    /\ PagesUpTo(pages) = result_list
    /\ page_obj # NoPage =>
          /\ Len(page_obj.object_list) <= 24
          /\ (page_param.given /\ IsDigits(page_param.v) /\ ToInt(page_param.v) >= 1) =>
                LET p == ToInt(page_param.v) IN
                IF p <= pages
                THEN page_obj.number = p /\ page_obj.object_list = Items(p)
                ELSE page_obj.number = pages /\ page_obj.object_list = Items(pages)

\* page 9999 of a result of 3 items was asked for and gave the 3 items
C10_Witness ==
    /\ page_param = P(<<"9","9","9","9">>)
    /\ Len(result_list) = 3
    /\ page_obj.number = 1 /\ page_obj.object_list = result_list

\* the created_at a sorted list is ordered by: a missing one (NULL, or no such
\* attribute) counts as the earliest value
DayOrEarliest(item) ==
    IF item.created_at.kind = "datetime" THEN item.created_at.day ELSE 0
\* the list the request merges, before it is sorted
Merged(query) ==
    unified_dashboard([query EXCEPT !.sort = P(<<"s","i","z","e">>)]).unified_items
\* the order the sort parameter asks for
SortedAsAsked(items, sort) ==
    \A i \in 1..(Len(items) - 1) :
        LET a == items[i]
            b == items[i + 1]
        IN CASE sort \in {None, P(<<"-","c","r","e","a","t","e","d","_","a","t">>)} ->
                    DayOrEarliest(a) >= DayOrEarliest(b)
             [] sort = P(<<"c","r","e","a","t","e","d","_","a","t">>) ->
                    DayOrEarliest(a) <= DayOrEarliest(b)
             [] sort = P(<<"t","i","t","l","e">>) ->
                    ~StrLess(Lower(b.title), Lower(a.title))
             [] sort = P(<<"-","t","i","t","l","e">>) ->
                    ~StrLess(Lower(a.title), Lower(b.title))
             [] OTHER -> TRUE

\* C11: every dashboard request is answered, whatever created_at the rows
\* have; its list is a permutation of the merged list, non-increasing in
\* created_at for sort=-created_at (the default) and non-decreasing for
\* sort=created_at, a missing created_at counting as the earliest value, and
\* in ascending (sort=title) or descending (sort=-title) order of the
\* lower-cased titles.
C11_SortOrder ==
    context # NoContext =>
        /\ context.rendered /\ ~context.raised
        /\ Len(context.unified_items) = Len(Merged(GET))
        /\ Range(context.unified_items) = Range(Merged(GET))
        /\ SortedAsAsked(context.unified_items, GET.sort)


\* the attributes of the object a metadata key is taken from
SourceAttrs(k) ==
    CASE k = "dimensions" -> {"width", "height"}
      [] k = "copyright"  -> {"copyright_holder"}
      [] k = "version"    -> {"document_version"}
      [] OTHER            -> {k}

RECURSIVE ParentChain(_, _)
ParentChain(f, fuel) ==
    IF fuel = 0 \/ f \notin FolderIds THEN <<>>
    ELSE <<f>> \o ParentChain(folders[f].parent, fuel - 1)
\* the parent links from f end at a root and pass no folder twice
ReachesRoot(f) ==
    LET chain == ParentChain(f, Cardinality(FolderIds)) IN
    /\ chain # <<>>
    /\ folders[chain[Len(chain)]].parent = NoFolder
    /\ \A i, j \in DOMAIN chain : i # j => chain[i] # chain[j]
\* the breadcrumbs of f are that chain, from the root down to f
BreadcrumbsArePath(f) ==
    LET chain == ParentChain(f, Cardinality(FolderIds))
        crumbs == get_breadcrumbs(f)
    IN /\ Len(crumbs) = Len(chain)
       /\ \A i \in DOMAIN crumbs : crumbs[i] = chain[Len(chain) + 1 - i]

\* C13: in every state the parent links from every folder end at a root
\* without passing a folder twice, and the breadcrumbs of the folder are that
\* path from the root down; no request changes the parent of a folder that
\* exists, only create_folder and the bootstrap add folders, and create_folder
\* adds at most one.
C13_FolderForest ==
    /\ [] (\A f \in FolderIds : ReachesRoot(f) /\ BreadcrumbsArePath(f))
    /\ [][ /\ \A f \in DOMAIN folders \cap DOMAIN folders' :
                 folders'[f].parent = folders[f].parent
           /\ DOMAIN folders' \ DOMAIN folders # {} =>
                 req'.op \in {"create_folder", "create_default_folders"}
           /\ req'.op = "create_folder" =>
                 Cardinality(DOMAIN folders' \ DOMAIN folders) <= 1 ]_vars

\* a folder was created inside a folder that is inside a folder
C13_Witness ==
    /\ req.op = "create_folder" /\ resp.level = "success"
    /\ \E f \in FolderIds : Len(get_breadcrumbs(f)) = 3

\* when process p ran the statement name: its place in the log, 0 for never
Pos(p, name) ==
    IF \E i \in DOMAIN race.events : race.events[i] = <<p, name>>
    THEN CHOOSE i \in DOMAIN race.events : race.events[i] = <<p, name>>
    ELSE 0
\* a delete removed its folder while media rows were assigned to it
DeletedWhileHeld(p) ==
    /\ race.procs[p].op = "delete_folder" /\ race.procs[p].outcome = "success"
    /\ race.procs[p].held # {}
    /\ race.procs[p].id \notin FolderIds
\* both requests were moves and both saved
BothMoved ==
    \A p \in RaceProcs :
        race.procs[p].op = "move_media" /\ race.procs[p].outcome = "success"

\* C14: when a delete_folder and a move_media into the folder run at once, the
\* folder is deleted with a record assigned to it only in executions in which
\* the move's save falls between the delete's can_delete() and its delete()
\* (and the folder field does not protect the folder), and such an execution
\* is reachable; a delete that finds can_delete() false deletes nothing. When two move_media of one record
\* run at once and both save, the record ends in the folder of the later save.
C14_RaceOutcomes ==
    /\ \A p \in RaceProcs :
          DeletedWhileHeld(p) =>
              /\ race.on_delete # "PROTECT"
              /\ \E q \in RaceProcs \ {p} :
                    /\ race.procs[q].op = "move_media"
                    /\ race.procs[q].folder = race.procs[p].id
                    /\ race.procs[q].media_obj \in race.procs[p].held
                    /\ Pos(p, "can_delete") < Pos(q, "save")
                    /\ Pos(q, "save") < Pos(p, "delete")
    /\ \A p \in RaceProcs :
          (race.procs[p].op = "delete_folder" /\ race.procs[p].outcome = "error")
              => race.procs[p].id \in FolderIds
    /\ BothMoved =>
          LET last == CHOOSE p \in RaceProcs :
                          \A q \in RaceProcs : Pos(q, "save") <= Pos(p, "save")
          IN folder_of[race.procs[last].media_obj] = race.procs[last].folder

\* can_delete() was true of the empty folder 1, the move then saved Video 1
\* into folder 1, and the delete then removed folder 1
C14_Witness ==
    /\ DeletedWhileHeld("a")
    /\ race.procs["a"].held = {Rec("Video", 1)}
    /\ race.procs["b"].outcome = "success" /\ race.procs["b"].folder = 1
    /\ Pos("a", "can_delete") < Pos("b", "save")
    /\ Pos("b", "save") < Pos("a", "delete")

\* C15: when requests run one at a time, in every state the parent of every
\* folder is none or a folder that exists, and the folder of every media row
\* is unset or a folder that exists.
C15_NoDanglingReferences ==
    /\ \A f \in FolderIds :
          folders[f].parent = NoFolder \/ folders[f].parent \in FolderIds
    /\ \A r \in DOMAIN folder_of :
          folder_of[r] = NoFolder \/ folder_of[r] \in FolderIds

\* a folder was deleted while another folder holds a media row
C15_Witness ==
    /\ req.op = "delete_folder" /\ resp.level = "success"
    /\ req.id \notin FolderIds
    /\ \E r \in DOMAIN folder_of : folder_of[r] \in FolderIds

=============================================================================
